---- MODULE Spec2Model ----
(***************************************************************************)
(* Model of setup.py, the packaging manifest of the repository.            *)
(*                                                                         *)
(* The manifest is a Python module of two statements: `import setuptools`  *)
(* and one call setuptools.setup(...) with eight keyword arguments.  The   *)
(* model follows the interpreter through the module: the import, the       *)
(* evaluation of each keyword argument in source order (the seventh one    *)
(* calls setuptools.find_packages()), the call itself and the end of the   *)
(* run.  What the run depends on from outside is the environment: which    *)
(* directories next to the manifest hold an __init__.py (what              *)
(* find_packages discovers, and in which order os.walk lists it) and the   *)
(* command given on the command line.  The model covers environments in    *)
(* which setuptools is installed, since setuptools is the manifest's       *)
(* consumer.                                                               *)
(*                                                                         *)
(* A Python str is a sequence of one-character strings; a Python value is  *)
(* a record tagged with its type.  Keyword names are identifiers and are   *)
(* TLA+ strings.                                                           *)
(***************************************************************************)
EXTENDS Integers, Sequences, FiniteSets, TLC

VARIABLES
    pc,       \* the statement or argument the interpreter evaluates next
    globals,  \* names bound in the module's namespace
    kwargs,   \* keyword arguments evaluated so far for the pending call
    calls,    \* calls the module has made in this run, in order
    dist,     \* the Distribution setuptools.setup built from its arguments
    exit,     \* how the run ended: "running", "ok" or "SystemExit"
    fs,       \* directories beside the manifest that contain __init__.py
    argv,     \* the command given on the command line ("" for none)
    run,      \* number of the current run of the manifest
    prev      \* the previous run: its environment and the non-packages
              \* arguments it passed to setup

vars == << pc, globals, kwargs, calls, dist, exit, fs, argv, run, prev >>

--------------------------------------------------------------------------
(* Bounds of the environment.                                              *)

\* number of candidate directories in the source tree
NumDirs == 3

\* number of times the manifest is run (a build front end runs it again for
\* each command)
MaxRuns == 2

--------------------------------------------------------------------------
(* Python values.                                                          *)

Str(s) == [type |-> "str", val |-> s]

List(s) == [type |-> "list", val |-> s]

None == [type |-> "NoneType", val |-> << >>]

EmptyDict == [k \in {} |-> None]

--------------------------------------------------------------------------
(* The literals of the manifest.                                           *)

NameLiteral_empty == Str(<< >>)

NameLiteral ==
    Str(<< "a", "u", "d", "i", "o", "-", "s", "p", "e", "e", "c", "h", "-",
           "t", "o", "-", "s", "i", "g", "n", "-", "l", "a", "n", "g", "u",
           "a", "g", "e", "-", "c", "o", "n", "v", "e", "r", "t", "e", "r" >>)

VersionLiteral_leadingZero == Str(<< "5", ".", "0", "1", ".", "0" >>)

VersionLiteral == Str(<< "5", ".", "1", ".", "0" >>)

DescriptionLiteral ==
    Str(<< "P", "y", "t", "h", "o", "n", " ", "p", "r", "o", "j", "e", "c",
           "t" >>)

AuthorLiteral ==
    Str(<< "A", "n", "u", "r", "a", "g", " ", "P", "a", "n", "d", "e", "y" >>)

AuthorEmailLiteral ==
    Str(<< "a", "n", "u", "r", "a", "g", "p", "a", "n", "d", "e", "y", "1",
           "2", "@", "g", "m", "a", "i", "l", ".", "c", "o", "m" >>)

UrlLiteral ==
    Str(<< "h", "t", "t", "p", "s", ":", "/", "/", "g", "i", "t", "h", "u",
           "b", ".", "c", "o", "m", "/", "A", "n", "u", "r", "a", "g", "6",
           "3", "7", "/", "A", "u", "d", "i", "o", "-", "S", "p", "e", "e",
           "c", "h", "-", "T", "o", "-", "S", "i", "g", "n", "-", "L", "a",
           "n", "g", "u", "a", "g", "e", "-", "C", "o", "n", "v", "e", "r",
           "t", "e", "r", ".", "g", "i", "t" >>)

nltk == Str(<< "n", "l", "t", "k" >>)

joblib == Str(<< "j", "o", "b", "l", "i", "b" >>)

click == Str(<< "c", "l", "i", "c", "k" >>)

regex == Str(<< "r", "e", "g", "e", "x" >>)

sqlparse == Str(<< "s", "q", "l", "p", "a", "r", "s", "e" >>)

setuptools == Str(<< "s", "e", "t", "u", "p", "t", "o", "o", "l", "s" >>)

SetupRequiresLiteral_fiveOnly ==
    List(<< nltk, joblib, click, regex, sqlparse >>)

SetupRequiresLiteral_duplicate ==
    List(<< nltk, joblib, click, regex, sqlparse, nltk >>)

SetupRequiresLiteral ==
    List(<< nltk, joblib, click, regex, sqlparse, setuptools >>)

--------------------------------------------------------------------------
(* The environment: the source tree and the command line.                  *)

Dirs == 1 .. NumDirs

\* directories 1 and 2 lie beside the manifest, directory d > 2 lies inside
\* directory d - 2
Parent(d) == IF d <= 2 THEN 0 ELSE d - 2

DirLetter(d) == << "a", "b", "c", "d", "e", "f", "g", "h" >>[d]

RECURSIVE DottedName(_)
DottedName(d) ==
    IF Parent(d) = 0 THEN << DirLetter(d) >>
    ELSE DottedName(Parent(d)) \o << ".", DirLetter(d) >>

\* find_packages descends only into directories that look like packages
RECURSIVE IsPackage(_, _)
IsPackage(d, tree) ==
    /\ d \in tree
    /\ Parent(d) # 0 => IsPackage(Parent(d), tree)

Discovered(tree) == { d \in Dirs : IsPackage(d, tree) }

\* the orders in which os.walk can list the discovered packages: a package
\* is listed after the package that contains it
WalkOrders(tree) ==
    { o \in [1 .. Cardinality(Discovered(tree)) -> Discovered(tree)] :
        /\ \A i, j \in DOMAIN o : i # j => o[i] # o[j]
        /\ \A i, j \in DOMAIN o : o[i] = Parent(o[j]) => i < j }

find_packages(order) ==
    List([i \in DOMAIN order |-> Str(DottedName(order[i]))])

Commands == { "", "egg_info", "sdist", "install" }

--------------------------------------------------------------------------
(* setuptools.setup: the Distribution built from the keyword arguments.    *)

DistAttrs ==
    { "name", "version", "description", "author", "author_email", "url",
      "packages", "setup_requires", "install_requires", "extras_require",
      "entry_points", "scripts", "data_files", "package_data", "py_modules" }

Distribution(attrs) ==
    [a \in DistAttrs |-> IF a \in DOMAIN attrs THEN attrs[a] ELSE None]

\* the requirement names a requirement attribute declares
Requirements(d, attr) ==
    IF d[attr].type = "list"
    THEN { d[attr].val[i] : i \in DOMAIN d[attr].val }
    ELSE {}

StaticKeys ==
    { "name", "version", "description", "author", "author_email", "url",
      "setup_requires" }

Static(attrs) == [k \in DOMAIN attrs \cap StaticKeys |-> attrs[k]]

--------------------------------------------------------------------------
(* The run of the module.                                                  *)

Init ==
    /\ pc = "import"
    /\ globals = {}
    /\ kwargs = EmptyDict
    /\ calls = << >>
    /\ dist = None
    /\ exit = "running"
    /\ fs \in SUBSET Dirs
    /\ argv \in Commands
    /\ run = 1
    /\ prev = None

Import ==
    /\ pc = "import"
    /\ globals' = globals \cup { "setuptools" }
    /\ pc' = "name"
    /\ UNCHANGED << kwargs, calls, dist, exit, fs, argv, run, prev >>

EvalName ==
    /\ pc = "name"
    /\ kwargs' = kwargs @@ ("name" :> NameLiteral)
    /\ pc' = "version"
    /\ UNCHANGED << globals, calls, dist, exit, fs, argv, run, prev >>

EvalVersion_fromCommand ==
    /\ pc = "version"
    /\ kwargs' = kwargs @@ ("version" :>
                      IF argv = "sdist" THEN VersionLiteral
                      ELSE Str(VersionLiteral.val \o << ".", "d", "e", "v" >>))
    /\ pc' = "description"
    /\ UNCHANGED << globals, calls, dist, exit, fs, argv, run, prev >>

EvalVersion ==
    /\ pc = "version"
    /\ kwargs' = kwargs @@ ("version" :> VersionLiteral)
    /\ pc' = "description"
    /\ UNCHANGED << globals, calls, dist, exit, fs, argv, run, prev >>

EvalDescription ==
    /\ pc = "description"
    /\ kwargs' = kwargs @@ ("description" :> DescriptionLiteral)
    /\ pc' = "author"
    /\ UNCHANGED << globals, calls, dist, exit, fs, argv, run, prev >>

EvalAuthor ==
    /\ pc = "author"
    /\ kwargs' = kwargs @@ ("author" :> AuthorLiteral)
    /\ pc' = "author_email"
    /\ UNCHANGED << globals, calls, dist, exit, fs, argv, run, prev >>

EvalAuthorEmail ==
    /\ pc = "author_email"
    /\ kwargs' = kwargs @@ ("author_email" :> AuthorEmailLiteral)
    /\ pc' = "url"
    /\ UNCHANGED << globals, calls, dist, exit, fs, argv, run, prev >>

EvalUrl ==
    /\ pc = "url"
    /\ kwargs' = kwargs @@ ("url" :> UrlLiteral)
    /\ pc' = "packages"
    /\ UNCHANGED << globals, calls, dist, exit, fs, argv, run, prev >>

CallFindPackages_literal ==
    /\ pc = "packages"
    /\ kwargs' = kwargs @@ ("packages" :> List(<< Str(<< "a" >>) >>))
    /\ pc' = "setup_requires"
    /\ UNCHANGED << globals, calls, dist, exit, fs, argv, run, prev >>

CallFindPackages ==
    /\ pc = "packages"
    /\ \E order \in WalkOrders(fs) :
           kwargs' = kwargs @@ ("packages" :> find_packages(order))
    /\ calls' = Append(calls, "find_packages")
    /\ pc' = "setup_requires"
    /\ UNCHANGED << globals, dist, exit, fs, argv, run, prev >>

EvalSetupRequires_asInstallRequires ==
    /\ pc = "setup_requires"
    /\ kwargs' = kwargs @@ ("install_requires" :> SetupRequiresLiteral)
    /\ pc' = "call"
    /\ UNCHANGED << globals, calls, dist, exit, fs, argv, run, prev >>

EvalSetupRequires_withEntryPoints ==
    /\ pc = "setup_requires"
    /\ kwargs' = kwargs @@ ("setup_requires" :> SetupRequiresLiteral)
                        @@ ("entry_points" :> List(<< click >>))
    /\ pc' = "call"
    /\ UNCHANGED << globals, calls, dist, exit, fs, argv, run, prev >>

EvalSetupRequires ==
    /\ pc = "setup_requires"
    /\ kwargs' = kwargs @@ ("setup_requires" :> SetupRequiresLiteral)
    /\ pc' = "call"
    /\ UNCHANGED << globals, calls, dist, exit, fs, argv, run, prev >>

CallSetup_again ==
    /\ pc = "call"
    /\ dist' = Distribution(kwargs)
    /\ calls' = Append(calls, "setup")
    /\ exit' = "running"
    /\ pc' = IF Len(calls) < 2 THEN "call" ELSE "done"
    /\ UNCHANGED << globals, kwargs, fs, argv, run, prev >>

\* setup builds the Distribution and runs the command; without a command it
\* raises SystemExit, which ends the module as well
CallSetup ==
    /\ pc = "call"
    /\ dist' = Distribution(kwargs)
    /\ calls' = Append(calls, "setup")
    /\ exit' = IF argv = "" THEN "SystemExit" ELSE "ok"
    /\ pc' = "done"
    /\ UNCHANGED << globals, kwargs, fs, argv, run, prev >>

\* the manifest is run again, as a new process in a possibly different
\* environment; what the finished run passed to setup is remembered
Rerun ==
    /\ pc = "done"
    /\ run < MaxRuns
    /\ run' = run + 1
    /\ prev' = [fs |-> fs, argv |-> argv, passed |-> Static(kwargs)]
    /\ fs' \in SUBSET Dirs
    /\ argv' \in Commands
    /\ pc' = "import"
    /\ globals' = {}
    /\ kwargs' = EmptyDict
    /\ calls' = << >>
    /\ dist' = None
    /\ exit' = "running"

Step ==
    \/ Import
    \/ EvalName
    \/ EvalVersion
    \/ EvalDescription
    \/ EvalAuthor
    \/ EvalAuthorEmail
    \/ EvalUrl
    \/ CallFindPackages
    \/ EvalSetupRequires
    \/ CallSetup

Next == Step \/ Rerun

Spec == Init /\ [][Next]_vars

\* the interpreter runs the module's statements to the end
FairSpec == Spec /\ WF_vars(Step)

--------------------------------------------------------------------------
(* Properties of the manifest.                                             *)

\* the setup call has been made; kwargs are then the arguments it received
Called == pc = "done"

SetupCalls == { i \in DOMAIN calls : calls[i] = "setup" }

FindCalls == { i \in DOMAIN calls : calls[i] = "find_packages" }

IsStr(v) == v.type = "str"

Elements(v) == { v.val[i] : i \in DOMAIN v.val }

\* C1: the single setup call receives a name and a version, and both are
\* non-empty strings.
NameAndVersionNonEmpty ==
    Called =>
        /\ Cardinality(SetupCalls) = 1
        /\ { "name", "version" } \subseteq DOMAIN kwargs
        /\ \A k \in { "name", "version" } :
               /\ IsStr(kwargs[k])
               /\ Len(kwargs[k].val) > 0
               /\ dist[k] = kwargs[k]

NameAndVersionPassed ==
    /\ Called
    /\ "name" \in DOMAIN kwargs
    /\ "version" \in DOMAIN kwargs
    /\ Len(kwargs["name"].val) = 39
    /\ Len(kwargs["version"].val) = 5

Digits == { "0", "1", "2", "3", "4", "5", "6", "7", "8", "9" }

\* the components of s between its dots
RECURSIVE SplitDots(_)
SplitDots(s) ==
    IF s = << >> THEN << << >> >>
    ELSE LET rest == SplitDots(Tail(s))
         IN  IF Head(s) = "." THEN << << >> >> \o rest
             ELSE << << Head(s) >> \o Head(rest) >> \o Tail(rest)

\* a non-negative decimal integer without leading zeros
IsNumericId(c) ==
    /\ Len(c) > 0
    /\ \A i \in DOMAIN c : c[i] \in Digits
    /\ Len(c) > 1 => c[1] # "0"

IsSemVer(s) ==
    LET parts == SplitDots(s)
    IN  /\ Len(parts) = 3
        /\ \A i \in DOMAIN parts : IsNumericId(parts[i])

\* C2: the version passed to setup is major.minor.patch, three dot-separated
\* decimal integers without leading zeros and with no suffix.
VersionIsSemVer ==
    Called =>
        /\ "version" \in DOMAIN kwargs
        /\ IsStr(kwargs["version"])
        /\ IsSemVer(kwargs["version"].val)

VersionPassed ==
    /\ Called
    /\ "version" \in DOMAIN kwargs
    /\ SplitDots(dist["version"].val) = << << "5" >>, << "1" >>, << "0" >> >>

ManifestKeys ==
    { "name", "version", "description", "author", "author_email", "url",
      "packages", "setup_requires" }

\* C3: setup receives exactly the eight keyword arguments name, version,
\* description, author, author_email, url, packages and setup_requires;
\* packages is what the one find_packages call returned in this environment
\* and setup_requires is a list of strings.
ExactlyTheManifestKeys ==
    Called =>
        /\ DOMAIN kwargs = ManifestKeys
        /\ Cardinality(FindCalls) = 1
        /\ kwargs["packages"] \in { find_packages(o) : o \in WalkOrders(fs) }
        /\ kwargs["setup_requires"].type = "list"
        /\ \A e \in Elements(kwargs["setup_requires"]) : IsStr(e)

EightKeysPassed ==
    /\ Called
    /\ Cardinality(DOMAIN kwargs) = 8
    /\ "packages" \in DOMAIN kwargs
    /\ Len(kwargs["packages"].val) = NumDirs

FiveRoles == { nltk, joblib, click, regex, sqlparse }

\* C4 as stated: setup_requires contains each of nltk, joblib, click, regex
\* and sqlparse and no dependency besides these five.
SetupRequiresIsTheFiveRoles ==
    Called =>
        /\ "setup_requires" \in DOMAIN kwargs
        /\ Elements(kwargs["setup_requires"]) = FiveRoles

\* C4: setup_requires contains each of nltk, joblib, click, regex and
\* sqlparse and exactly one dependency besides these five, setuptools.
SetupRequiresIsTheFiveRolesAndSetuptools ==
    Called =>
        /\ "setup_requires" \in DOMAIN kwargs
        /\ FiveRoles \subseteq Elements(kwargs["setup_requires"])
        /\ Elements(kwargs["setup_requires"]) \ FiveRoles = { setuptools }

SixRequirementsPassed ==
    /\ Called
    /\ "setup_requires" \in DOMAIN kwargs
    /\ Len(kwargs["setup_requires"].val) = 6
    /\ setuptools \in Requirements(dist, "setup_requires")

PcOrder ==
    << "import", "name", "version", "description", "author", "author_email",
       "url", "packages", "setup_requires", "call", "done" >>

Position(p) == CHOOSE i \in DOMAIN PcOrder : PcOrder[i] = p

\* the calls made and the names bound are those of a straight line through
\* the module: find_packages once, then setup once, and no module-level name
\* besides the imported module
StraightLine ==
    /\ pc \in { PcOrder[i] : i \in DOMAIN PcOrder }
    /\ globals \subseteq { "setuptools" }
    /\ calls = IF Position(pc) <= Position("packages") THEN << >>
               ELSE IF Position(pc) <= Position("call")
                    THEN << "find_packages" >>
                    ELSE << "find_packages", "setup" >>
    /\ Called => exit \in { "ok", "SystemExit" }
    /\ ~Called => exit = "running"

\* C5: a run is one straight line: every step moves to the next position of
\* the module (no branch, no loop), find_packages is called exactly once and
\* then setup exactly once, nothing but the imported module is bound at
\* module level, and every run that starts reaches its end.
SingleStraightLineRun ==
    /\ []StraightLine
    /\ [][pc # "done" => Position(pc') = Position(pc) + 1]_vars
    /\ (pc = "import") ~> Called

RunEndedAfterOneCall ==
    /\ Called
    /\ calls = << "find_packages", "setup" >>
    /\ globals = { "setuptools" }
    /\ exit = "SystemExit"

InterfaceKeys == { "entry_points", "scripts", "data_files", "package_data" }

Declared == { a \in DistAttrs : dist[a].type # "NoneType" }

\* C6: setup receives no entry_points, scripts, data_files or package_data,
\* and what the Distribution declares is only the name, version,
\* description, author fields, URL, packages and setup-time dependencies.
NoExternalInterface ==
    Called =>
        /\ DOMAIN kwargs \cap InterfaceKeys = {}
        /\ \A k \in InterfaceKeys : dist[k] = None
        /\ Declared = ManifestKeys

OnlyMetadataDeclared ==
    /\ Called
    /\ exit = "ok"
    /\ Cardinality(Declared) = 8
    /\ dist["entry_points"] = None

\* the non-packages arguments of a later run are those of the run before it
SameAsPreviousRun ==
    (Called /\ run > 1) => Static(kwargs) = prev.passed

\* an argument, once evaluated, keeps its value to the end of the run
ArgumentsKept ==
    pc # "done" =>
        \A k \in DOMAIN kwargs :
            k \in DOMAIN kwargs' /\ kwargs'[k] = kwargs[k]

\* C7: every argument but packages has the same value in any two runs,
\* whatever the source tree and the command line, and no argument is
\* modified once it is evaluated.
MetadataIsStatic ==
    /\ []SameAsPreviousRun
    /\ [][ArgumentsKept]_vars

SecondRunElsewhere ==
    /\ Called
    /\ run > 1
    /\ prev.fs # fs
    /\ prev.argv # argv
    /\ DOMAIN prev.passed = StaticKeys

\* C8: every entry of setup_requires is a non-empty string and no entry
\* occurs twice.
SetupRequiresWellFormed ==
    Called =>
        /\ "setup_requires" \in DOMAIN kwargs
        /\ LET req == kwargs["setup_requires"].val
           IN  /\ \A i \in DOMAIN req : IsStr(req[i]) /\ Len(req[i].val) > 0
               /\ \A i, j \in DOMAIN req : i # j => req[i] # req[j]

DistinctRequirementsPassed ==
    /\ Called
    /\ "setup_requires" \in DOMAIN kwargs
    /\ Cardinality(Elements(kwargs["setup_requires"]))
           = Len(kwargs["setup_requires"].val)
    /\ Len(kwargs["setup_requires"].val) > 1

\* C9: the dependencies are declared for setup time only: setup receives
\* setup_requires, naming nltk, joblib, click, regex and sqlparse, but no
\* install_requires and no extras_require, so the Distribution declares no
\* run-time dependency.
OnlySetupTimeDependencies ==
    Called =>
        /\ "setup_requires" \in DOMAIN kwargs
        /\ "install_requires" \notin DOMAIN kwargs
        /\ "extras_require" \notin DOMAIN kwargs
        /\ FiveRoles \subseteq Requirements(dist, "setup_requires")
        /\ Requirements(dist, "install_requires") = {}
        /\ Requirements(dist, "extras_require") = {}

NoRuntimeDependencies ==
    /\ Called
    /\ Requirements(dist, "install_requires") = {}
    /\ nltk \in Requirements(dist, "setup_requires")
    /\ argv = "install"

====
